---- MODULE Spec2Model ----
(***************************************************************************)
(* Model of the heartbeat Monitor (node/heartbeat/monitor.go): the map of  *)
(* per-peer records, the known-peers slice, the three locks, the storer,   *)
(* and the goroutines started by NewMonitor, ProcessReceivedMessage and    *)
(* GetHeartbeats.  Times are nanoseconds since the Unix epoch, durations   *)
(* are nanoseconds.                                                        *)
(***************************************************************************)
EXTENDS Integers, Sequences, FiniteSets, TLC

\* ------------------------------------------------------------------ bounds
MaxClock == 2
MaxProcs == 3
\* calls, injected faults and clock advances in one behaviour
MaxEvents == 2
MaxRestarts == 1

\* --------------------------------------------------------- configuration
\* the maxDurationPeerUnresponsive argument a valid configuration passes
MaxInactive == 1
\* the genesisTime argument
GenesisTime == 0

KeyA == <<10>>
KeyB == <<9, 255>>
Keys == {KeyA, KeyB}

Collaborators ==
    {"marshalizer", "peerTypeProvider", "messageHandler", "storer", "timer",
     "antifloodHandler"}

EmptyPubKeysMap == [s \in {} |-> <<>>]
PubKeysMaps ==
    { EmptyPubKeysMap,
      [s \in {0} |-> <<KeyA>>],
      [s \in {0, 1} |-> IF s = 0 THEN <<KeyA>> ELSE <<KeyB>>] }

ObserverList == "observer"
EligibleList == "eligible"

NoPtr == <<>>
NoRet == [op |-> "none"]
Idle == [type |-> "idle"]
Procs == 1..MaxProcs

VARIABLES
    now,                  \* what m.timer.Now() returned last
    up,                   \* TRUE while a constructed Monitor is running
    events,               \* calls, faults and clock advances so far
    restarts,             \* process restarts so far
    nilFields,            \* collaborators of the Monitor that are nil
    faults,               \* collaborator calls that fail while this Monitor runs
    maxDurationPeerUnresponsive,
    heap,                 \* the heartbeatMessageInfo objects, by pointer
    heartbeatMessages,    \* m.heartbeatMessages: key -> pointer
    pubKeysMap,           \* m.pubKeysMap
    fullPeersSlice,       \* m.fullPeersSlice
    mutHeartbeatMessages, \* RWMutex: [w |-> writer holds it, r |-> readers]
    procs,                \* the goroutines: Procs -> frame
    dbRecords,            \* storer: key -> HeartbeatDTO
    dbKeys,               \* storer: the persisted keys slice
    dbGenesis,            \* storer: persisted genesis time, <<>> when none
    ret,                  \* what the call that made the last step returned
    loadableKeys,         \* keys of the persisted slice whose record could be
                          \* loaded when this Monitor was built
    acceptedKeys,         \* senders of the heartbeats this Monitor accepted
    noPriorStorage,       \* the storer was empty when this Monitor was built
    saveKeysFailed        \* some SaveKeys call has failed

cfgVars == <<up, nilFields, faults, maxDurationPeerUnresponsive, pubKeysMap>>
lockVars == <<mutHeartbeatMessages>>
monVars ==
    <<cfgVars, heap, heartbeatMessages, fullPeersSlice, lockVars, procs>>
dbVars == <<dbRecords, dbKeys, dbGenesis>>
ghostVars == <<loadableKeys, acceptedKeys, noPriorStorage, saveKeysFailed>>
vars == <<now, events, restarts, monVars, dbVars, ret, ghostVars>>

\* ------------------------------------------------------------ utilities
Range(s) == { s[i] : i \in 1..Len(s) }
maxDuration(a, b) == IF a > b THEN a ELSE b
Extend(f, k, v) == [x \in DOMAIN f \cup {k} |-> IF x = k THEN v ELSE f[x]]
Restrict(f, S) == [x \in S |-> f[x]]

\* time.Time <-> int64 nanoseconds, time.Duration <-> int64 nanoseconds
UnixNano(t) == t
TimeUnix(sec, nsec) == sec * 1000000000 + nsec
Nanoseconds(d) == d
Seconds(d) == d \div 1000000000

\* ------------------------------------------------- heartbeatMessageInfo
\* timeStamp of a record that has not received a heartbeat: far enough in
\* the past for every evaluation to find the peer silent
NoHeartbeatTime == GenesisTime - (MaxClock + MaxInactive + 1)

newHeartbeatMessageInfo(maxDur, peerType, genesisTime) ==
    IF maxDur = 0
    THEN [err |-> "ErrInvalidMaxDurationPeerUnresponsive"]
    ELSE [err |-> "nil",
          hbmi |-> [maxDurationPeerUnresponsive |-> maxDur,
                    maxInactiveTime |-> maxDur,
                    isActive |-> FALSE,
                    receivedShardID |-> 0,
                    computedShardID |-> 0,
                    versionNumber |-> "",
                    nodeDisplayName |-> "",
                    peerType |-> peerType,
                    timeStamp |-> NoHeartbeatTime,
                    totalUpTime |-> 0,
                    totalDownTime |-> 0,
                    lastUptimeDowntime |-> genesisTime,
                    genesisTime |-> genesisTime]]

HeartbeatReceived(v, computedShardID, receivedShardID, version, name, peerType, t) ==
    [v EXCEPT !.isActive = TRUE,
              !.timeStamp = t,
              !.computedShardID = computedShardID,
              !.receivedShardID = receivedShardID,
              !.versionNumber = version,
              !.nodeDisplayName = name,
              !.peerType = peerType]

\* the delta is credited by the state after the evaluation
ComputeActiveCreditsNewState(v, crtTime) ==
    LET delta == maxDuration(0, crtTime - v.lastUptimeDowntime)
        active == crtTime - v.timeStamp < v.maxInactiveTime
    IN [v EXCEPT !.isActive = active,
                 !.totalUpTime = IF active THEN @ + delta ELSE @,
                 !.totalDownTime = IF active THEN @ ELSE @ + delta,
                 !.lastUptimeDowntime = crtTime]

\* the watermark is left where it was
ComputeActiveKeepsWatermark(v, crtTime) ==
    LET delta == maxDuration(0, crtTime - v.lastUptimeDowntime)
    IN [v EXCEPT !.isActive = (crtTime - v.timeStamp < v.maxInactiveTime),
                 !.totalUpTime = IF v.isActive THEN @ + delta ELSE @,
                 !.totalDownTime = IF v.isActive THEN @ ELSE @ + delta]

ComputeActive(v, crtTime) ==
    LET delta == maxDuration(0, crtTime - v.lastUptimeDowntime)
    IN [v EXCEPT !.isActive = (crtTime - v.timeStamp < v.maxInactiveTime),
                 !.totalUpTime = IF v.isActive THEN @ + delta ELSE @,
                 !.totalDownTime = IF v.isActive THEN @ ELSE @ + delta,
                 !.lastUptimeDowntime = crtTime]

GetIsActive(v) == v.isActive
GetIsValidator(v) == v.peerType = EligibleList

\* ------------------------------------------------------------ collaborators
\* A collaborator call either works for the whole run of a Monitor or fails
\* for the whole run: ComputeForPubKey, SavePubkeyData, SaveKeys, LoadKeys,
\* LoadHbmiDTO.
RuntimeFaults == {"resolver", "savePubkey", "saveKeys"}
LoadFaults == {"loadKeys", "loadHbmi"}
FaultSets == {{}} \cup { {f} : f \in RuntimeFaults \cup LoadFaults }

\* lines 301-304 left out: the answer is used whether the call failed or not
computePeerTypeAndShardIDIgnoresError(fs) ==
    [peerType |-> EligibleList, shardID |-> 1]

\* ComputeForPubKey either fails or answers (eligible, shard 1)
computePeerTypeAndShardID(fs) ==
    IF "resolver" \in fs
    THEN [peerType |-> ObserverList, shardID |-> 0]
    ELSE [peerType |-> EligibleList, shardID |-> 1]

computePeerType(fs) ==
    IF "resolver" \in fs THEN ObserverList ELSE EligibleList

\* storer.SavePubkeyData: stores the DTO under the key unless it fails
SavePubkeyData(db, k, hbDTO, fs) ==
    IF "savePubkey" \in fs THEN db ELSE Extend(db, k, hbDTO)

\* storer.SaveKeys: replaces the persisted slice unless it fails
SaveKeys(keys, peersSlice, fs) == IF "saveKeys" \in fs THEN keys ELSE peersSlice

\* storer.LoadHbmiDTO(k) answers a DTO iff one is stored and the read works
Loadable(k, db, fs) == k \in DOMAIN db /\ "loadHbmi" \notin fs

\* ------------------------------------------------------------ conversions
convertToExportedStruct(v) ==
    [IsActive |-> v.isActive,
     ReceivedShardID |-> v.receivedShardID,
     ComputedShardID |-> v.computedShardID,
     VersionNumber |-> v.versionNumber,
     NodeDisplayName |-> v.nodeDisplayName,
     PeerType |-> v.peerType,
     TimeStamp |-> UnixNano(v.timeStamp),
     MaxInactiveTime |-> Nanoseconds(v.maxInactiveTime),
     TotalUpTime |-> Nanoseconds(v.totalUpTime),
     TotalDownTime |-> Nanoseconds(v.totalDownTime),
     LastUptimeDowntime |-> UnixNano(v.lastUptimeDowntime),
     GenesisTime |-> UnixNano(v.genesisTime)]

\* lines 422-423 with the two totals taken from each other's field
convertFromExportedStructSwapsTotals(hbDTO, maxDur) ==
    [maxDurationPeerUnresponsive |-> maxDur,
     isActive |-> hbDTO.IsActive,
     receivedShardID |-> hbDTO.ReceivedShardID,
     computedShardID |-> hbDTO.ComputedShardID,
     versionNumber |-> hbDTO.VersionNumber,
     nodeDisplayName |-> hbDTO.NodeDisplayName,
     peerType |-> hbDTO.PeerType,
     maxInactiveTime |-> hbDTO.MaxInactiveTime,
     timeStamp |-> TimeUnix(0, hbDTO.TimeStamp),
     totalUpTime |-> hbDTO.TotalDownTime,
     totalDownTime |-> hbDTO.TotalUpTime,
     lastUptimeDowntime |-> TimeUnix(0, hbDTO.LastUptimeDowntime),
     genesisTime |-> TimeUnix(0, hbDTO.GenesisTime)]

convertFromExportedStruct(hbDTO, maxDur) ==
    [maxDurationPeerUnresponsive |-> maxDur,
     isActive |-> hbDTO.IsActive,
     receivedShardID |-> hbDTO.ReceivedShardID,
     computedShardID |-> hbDTO.ComputedShardID,
     versionNumber |-> hbDTO.VersionNumber,
     nodeDisplayName |-> hbDTO.NodeDisplayName,
     peerType |-> hbDTO.PeerType,
     maxInactiveTime |-> hbDTO.MaxInactiveTime,
     timeStamp |-> TimeUnix(0, hbDTO.TimeStamp),
     totalUpTime |-> hbDTO.TotalUpTime,
     totalDownTime |-> hbDTO.TotalDownTime,
     lastUptimeDowntime |-> TimeUnix(0, hbDTO.LastUptimeDowntime),
     genesisTime |-> TimeUnix(0, hbDTO.GenesisTime)]

\* ------------------------------------------------------------ construction
\* line 192 left out: the elapsed time is not clipped at 0
loadHbmiFromStorerNoClip(hbmiDTO, maxDur, genesisTime, crtTime, fs) ==
    LET receivedHbmi == convertFromExportedStruct(hbmiDTO, maxDur)
        crtDuration == crtTime - receivedHbmi.lastUptimeDowntime
    IN [receivedHbmi EXCEPT
            !.totalUpTime = IF receivedHbmi.isActive THEN @ + crtDuration ELSE @,
            !.timeStamp = IF receivedHbmi.isActive THEN crtTime ELSE @,
            !.totalDownTime = IF receivedHbmi.isActive THEN @ ELSE @ + crtDuration,
            !.lastUptimeDowntime = crtTime,
            !.genesisTime = genesisTime,
            !.peerType = computePeerType(fs)]

\* lines 188-201: the record adopted from the storer for a key whose DTO is
\* hbmiDTO
loadHbmiFromStorer(hbmiDTO, maxDur, genesisTime, crtTime, fs) ==
    LET receivedHbmi == convertFromExportedStruct(hbmiDTO, maxDur)
        crtDuration == maxDuration(0, crtTime - receivedHbmi.lastUptimeDowntime)
    IN [receivedHbmi EXCEPT
            !.totalUpTime = IF receivedHbmi.isActive THEN @ + crtDuration ELSE @,
            !.timeStamp = IF receivedHbmi.isActive THEN crtTime ELSE @,
            !.totalDownTime = IF receivedHbmi.isActive THEN @ ELSE @ + crtDuration,
            !.lastUptimeDowntime = crtTime,
            !.genesisTime = genesisTime,
            !.peerType = computePeerType(fs)]

\* the loop over the shards stops after shard 0
AssignedKeysFirstShard(pkm) == UNION { Range(pkm[s]) : s \in DOMAIN pkm \cap {0} }

\* lines 111-118: the keys initializeHeartbeatMessagesInfo visits
AssignedKeys(pkm) == UNION { Range(pkm[s]) : s \in DOMAIN pkm }

\* initializeHeartBeatForPK: the record for an assigned key
initializeHeartBeatForPK(k, in, db, crtTime) ==
    IF Loadable(k, db, in.faults)
    THEN [err |-> "nil", fresh |-> FALSE,
          hbmi |-> loadHbmiFromStorer(db[k], in.maxDur, GenesisTime, crtTime,
                                      in.faults)]
    ELSE LET r == computePeerTypeAndShardID(in.faults)
             n == newHeartbeatMessageInfo(in.maxDur, r.peerType, GenesisTime)
         IN IF n.err # "nil"
            THEN [err |-> n.err]
            ELSE [err |-> "nil", fresh |-> TRUE,
                  hbmi |-> [n.hbmi EXCEPT !.genesisTime = GenesisTime,
                                          !.computedShardID = r.shardID]]

\* every stored record is adopted, in the persisted slice or not
loadRestOfPubKeysFromStorageAllStored(tracked, in, db, keys) ==
    IF "loadKeys" \in in.faults
    THEN {}
    ELSE { k \in DOMAIN db \ tracked : Loadable(k, db, in.faults) }

\* loadRestOfPubKeysFromStorage: the keys of the persisted slice that get a
\* record besides the ones already tracked
loadRestOfPubKeysFromStorage(tracked, in, db, keys) ==
    IF "loadKeys" \in in.faults
    THEN {}
    ELSE { k \in Range(keys) \ tracked : Loadable(k, db, in.faults) }

\* the nil check of the timer left out
NewMonitorArgsErrNoTimer(in) ==
    IF "marshalizer" \in in.nils THEN "ErrNilMarshalizer"
    ELSE IF "peerTypeProvider" \in in.nils THEN "ErrNilPeerTypeProvider"
    ELSE IF DOMAIN in.pubKeysMap = {} THEN "ErrEmptyPublicKeysMap"
    ELSE IF "messageHandler" \in in.nils THEN "ErrNilMessageHandler"
    ELSE IF "storer" \in in.nils THEN "ErrNilHeartbeatStorer"
    ELSE IF "antifloodHandler" \in in.nils THEN "ErrNilAntifloodHandler"
    ELSE "nil"

\* the nil checks of NewMonitor, in the order of the code
NewMonitorArgsErr(in) ==
    IF "marshalizer" \in in.nils THEN "ErrNilMarshalizer"
    ELSE IF "peerTypeProvider" \in in.nils THEN "ErrNilPeerTypeProvider"
    ELSE IF DOMAIN in.pubKeysMap = {} THEN "ErrEmptyPublicKeysMap"
    ELSE IF "messageHandler" \in in.nils THEN "ErrNilMessageHandler"
    ELSE IF "storer" \in in.nils THEN "ErrNilHeartbeatStorer"
    ELSE IF "timer" \in in.nils THEN "ErrNilTimer"
    ELSE IF "antifloodHandler" \in in.nils THEN "ErrNilAntifloodHandler"
    ELSE "nil"

\* what NewMonitor(in) returns and builds on a storer holding (db, keys)
NewMonitorResult(in, db, keys, crtTime) ==
    LET argsErr == NewMonitorArgsErr(in)
        assigned == AssignedKeys(in.pubKeysMap)
        init == [k \in assigned |-> initializeHeartBeatForPK(k, in, db, crtTime)]
        failed == { k \in assigned : init[k].err # "nil" }
        rest == loadRestOfPubKeysFromStorage(assigned, in, db, keys)
        tracked == assigned \cup rest
    IN IF argsErr # "nil"
       THEN [mon |-> FALSE, err |-> argsErr, genesisSaved |-> FALSE]
       ELSE IF in.genesisFails
       THEN [mon |-> FALSE, err |-> "ErrUpdateGenesisTime", genesisSaved |-> FALSE]
       ELSE IF failed # {}
       THEN [mon |-> FALSE, err |-> init[CHOOSE k \in failed : TRUE].err,
             genesisSaved |-> TRUE]
       ELSE [mon |-> TRUE, err |-> "nil", genesisSaved |-> TRUE,
             nils |-> in.nils,
             heartbeatMessages |-> [k \in tracked |-> <<k, 1>>],
             heap |-> [p \in { <<k, 1>> : k \in tracked } |->
                          IF p[1] \in assigned
                          THEN init[p[1]].hbmi
                          ELSE loadHbmiFromStorer(db[p[1]], in.maxDur, GenesisTime,
                                                  crtTime, in.faults)],
             pubKeysMap |-> in.pubKeysMap,
             pubKeysToSave |-> [k \in { a \in assigned : init[a].fresh } |-> <<k, 1>>]]

\* the arguments and collaborator behaviours NewMonitor is tried with
NonEmptyPubKeysMaps == PubKeysMaps \ {EmptyPubKeysMap}
NewMonitorInputs ==
    [nils : {{}}, maxDur : {MaxInactive}, pubKeysMap : PubKeysMaps,
     genesisFails : {FALSE}, faults : FaultSets]
    \cup
    [nils : {{}}, maxDur : {0}, pubKeysMap : NonEmptyPubKeysMaps,
     genesisFails : {FALSE}, faults : {{}}]
    \cup
    [nils : {{}}, maxDur : {MaxInactive}, pubKeysMap : NonEmptyPubKeysMaps,
     genesisFails : {TRUE}, faults : {{}}]
    \cup
    [nils : {{c} : c \in Collaborators} \cup {Collaborators},
     maxDur : {MaxInactive}, pubKeysMap : PubKeysMaps,
     genesisFails : {FALSE}, faults : {{}}]

SaveFrame(toSave) ==
    [type |-> "save", pc |-> "svRLock", toSave |-> toSave]

\* a run with a failing collaborator counts as an event
Injected(in) == IF in.faults = {} THEN 0 ELSE 1

NewMonitor(in) ==
    /\ ~up
    /\ events + Injected(in) <= MaxEvents
    /\ events' = events + Injected(in)
    /\ LET r == NewMonitorResult(in, dbRecords, dbKeys, now)
       IN /\ ret' = [op |-> "NewMonitor", mon |-> r.mon, err |-> r.err, in |-> in]
          /\ dbGenesis' = IF r.genesisSaved THEN <<GenesisTime>> ELSE dbGenesis
          /\ UNCHANGED <<dbRecords, dbKeys>>
          /\ IF r.mon
             THEN /\ up' = TRUE
                  /\ nilFields' = r.nils
                  /\ faults' = in.faults \cap RuntimeFaults
                  /\ maxDurationPeerUnresponsive' = in.maxDur
                  /\ heap' = r.heap
                  /\ heartbeatMessages' = r.heartbeatMessages
                  /\ pubKeysMap' = r.pubKeysMap
                  /\ procs' = [procs EXCEPT ![1] = SaveFrame(r.pubKeysToSave)]
                  /\ loadableKeys' =
                        { k \in Range(dbKeys) :
                             k \in DOMAIN dbRecords /\ "loadHbmi" \notin in.faults }
                  /\ noPriorStorage' = (DOMAIN dbRecords = {} /\ dbKeys = <<>>)
                  /\ UNCHANGED <<fullPeersSlice, lockVars, acceptedKeys,
                                 saveKeysFailed>>
             ELSE UNCHANGED <<monVars, ghostVars>>
    /\ UNCHANGED <<now, restarts>>

\* what the clock shows when the process starts again: it may have been set
\* back as well as have advanced
RestartTimes == {GenesisTime, MaxClock}

\* the process stops (its goroutines and memory are gone, the storer stays)
Restart(t) ==
    /\ up
    /\ restarts < MaxRestarts
    /\ restarts' = restarts + 1
    /\ now' = t
    /\ up' = FALSE
    /\ nilFields' = {}
    /\ faults' = {}
    /\ maxDurationPeerUnresponsive' = 0
    /\ heap' = <<>>
    /\ heartbeatMessages' = <<>>
    /\ pubKeysMap' = EmptyPubKeysMap
    /\ fullPeersSlice' = <<>>
    /\ mutHeartbeatMessages' = [w |-> FALSE, r |-> 0]
    /\ procs' = [p \in Procs |-> Idle]
    /\ loadableKeys' = {}
    /\ acceptedKeys' = {}
    /\ noPriorStorage' = FALSE
    /\ ret' = NoRet
    /\ UNCHANGED <<events, dbVars, saveKeysFailed>>

\* m.timer.Now(): the clock does not go back while the process runs
TimerNow == { t \in now..MaxClock : t = now \/ events < MaxEvents }
Advance(t) == IF t > now THEN 1 ELSE 0

\* ---------------------------------------------------------------- locks
CanLock == ~mutHeartbeatMessages.w /\ mutHeartbeatMessages.r = 0
CanRLock == ~mutHeartbeatMessages.w
Locked == [w |-> TRUE, r |-> 0]
\* line 342 left out: the pass ends with mutHeartbeatMessages still held
UnlockLeftOut == [w |-> TRUE, r |-> 0]
Unlocked == [w |-> FALSE, r |-> 0]

\* where a goroutine with frame f stands with respect to the locks and the
\* collaborators:
\* it holds mutHeartbeatMessages, taken at line 320 (released at 342) or at
\* line 149 (released when the function returns, line 150)
HoldsMapLock(f) ==
    \/ f.type = "ca" /\ f.pc \in {"caIter", "caCompute", "caGet"}
    \/ f.type = "save" /\ f.pc \in {"svIter", "svSave"}

\* its next step calls the storer or the peer type provider: SavePubkeyData
\* (lines 154, 270), SaveKeys (line 282), ComputeForPubKey (line 265)
AtCollaboratorCall(f) ==
    \/ f.type = "save" /\ f.pc = "svSave"
    \/ f.type = "add" /\ f.pc \in {"addRecv", "addSave", "addPeer"}

\* its next step takes a record's updateMutex: GetIsActive and ComputeActive
\* (lines 325-327), convertToExportedStruct (lines 153, 268, 388),
\* HeartbeatReceived (line 267)
TakesUpdateMutex(f) ==
    \/ f.type = "ca" /\ f.pc \in {"caIter", "caCompute", "caGet"}
    \/ f.type = "save" /\ f.pc \in {"svRLock", "svIter"}
    \/ f.type = "add" /\ f.pc \in {"addRecv", "addExport"}

\* it holds a record's updateMutex between two steps
HoldsUpdateMutex(f) == f.type = "add" /\ f.pc = "addWrite"

\* its next step takes mutHeartbeatMessages
TakesMapLock(f) ==
    \/ f.type = "add" /\ f.pc = "addFind"
    \/ f.type = "ca" /\ f.pc = "caLock"
    \/ f.type = "save" /\ f.pc = "svRLock"
    \/ f.type = "gh" /\ f.pc = "ghLock"

FreeSlots == { p \in Procs : procs[p].type = "idle" }
FirstFree(S) == CHOOSE p \in S : \A q \in S : p <= q

\* ------------------------------------------------ ProcessReceivedMessage
Heartbeat(k) ==
    [Pubkey |-> k, ShardID |-> 2, VersionNumber |-> "v1", NodeDisplayName |-> "n1"]

\* a message and what the antiflood handler and the message handler answer;
\* hb is the heartbeat the message handler decodes
AcceptedMessages ==
    [isNil : {FALSE}, dataNil : {FALSE}, floodErr : {FALSE}, topicErr : {FALSE},
     decodeErr : {FALSE}, hb : { Heartbeat(k) : k \in Keys }]
Messages ==
    AcceptedMessages \cup
    [isNil : BOOLEAN, dataNil : BOOLEAN, floodErr : BOOLEAN, topicErr : BOOLEAN,
     decodeErr : BOOLEAN, hb : {Heartbeat(KeyA)}]

\* the topic admission check moved before the per-peer one
ProcessReceivedMessageErrTopicFirst(msg) ==
    IF msg.isNil THEN "ErrNilMessage"
    ELSE IF msg.dataNil THEN "ErrNilDataToProcess"
    ELSE IF msg.topicErr THEN "ErrCanProcessMessageOnTopic"
    ELSE IF msg.floodErr THEN "ErrCanProcessMessage"
    ELSE IF msg.decodeErr THEN "ErrCreateHeartbeat"
    ELSE "nil"

\* lines 219-238: the checks of ProcessReceivedMessage, in the order of the code
ProcessReceivedMessageErr(msg) ==
    IF msg.isNil THEN "ErrNilMessage"
    ELSE IF msg.dataNil THEN "ErrNilDataToProcess"
    ELSE IF msg.floodErr THEN "ErrCanProcessMessage"
    ELSE IF msg.topicErr THEN "ErrCanProcessMessageOnTopic"
    ELSE IF msg.decodeErr THEN "ErrCreateHeartbeat"
    ELSE "nil"

AddFrame(hb) == [type |-> "add", pc |-> "addFind", hb |-> hb, hbmi |-> NoPtr]
\* computeAllHeartbeatMessages run by goroutine `caller` ("go": started by
\* ProcessReceivedMessage, "gh": called by GetHeartbeats); slot is where the
\* goroutine of line 343 will run; transitioned is the set of keys whose
\* ComputeActive call of this pass turned the record from active to inactive
CaFrame(caller, slot) ==
    [type |-> "ca", pc |-> "caLock", caller |-> caller, slot |-> slot,
     todo |-> {}, cur |-> NoPtr, prev |-> FALSE, changed |-> <<>>,
     transitioned |-> {}]
Reserved == [type |-> "reserved"]
GhFrame == [type |-> "gh", pc |-> "ghLock"]

\* the goroutines ProcessReceivedMessage starts for a message it accepts
ProcessReceivedMessageSpawn(ps, msg) ==
    LET free == { p \in Procs : ps[p].type = "idle" }
        p1 == FirstFree(free)
        p2 == FirstFree(free \ {p1})
    IN [ps EXCEPT ![p1] = AddFrame(msg.hb), ![p2] = CaFrame("go", p2)]

ProcessReceivedMessage(msg) ==
    /\ up
    /\ events < MaxEvents
    /\ events' = events + 1
    /\ LET err == ProcessReceivedMessageErr(msg)
       IN /\ ret' = IF err # "nil"
                   THEN [op |-> "ProcessReceivedMessage", err |-> err]
                   ELSE [op |-> "ProcessReceivedMessage", err |-> err,
                         key |-> msg.hb.Pubkey]
          /\ IF err # "nil"
             THEN UNCHANGED <<procs, acceptedKeys>>
             ELSE /\ Cardinality(FreeSlots) >= 2
                  /\ procs' = ProcessReceivedMessageSpawn(procs, msg)
                  /\ acceptedKeys' = acceptedKeys \cup {msg.hb.Pubkey}
    /\ UNCHANGED <<now, restarts, cfgVars, heap, heartbeatMessages, fullPeersSlice,
                   lockVars, dbVars, loadableKeys, noPriorStorage, saveKeysFailed>>

\* ---------------------------------------------- addHeartbeatMessageToMap
NewPtr(hp, k) == <<k, 1 + Cardinality({ q \in DOMAIN hp : q[1] = k })>>

\* line 261 left out: the record created for an unseen key is not inserted
findOrCreateNoInsert(hm, hp, k, maxDur, peerType) ==
    IF k \in DOMAIN hm
    THEN [err |-> "nil", hbmi |-> hm[k], hm |-> hm, heap |-> hp]
    ELSE LET n == newHeartbeatMessageInfo(maxDur, peerType, GenesisTime)
             ptr == NewPtr(hp, k)
         IN IF n.err # "nil"
            THEN [err |-> n.err]
            ELSE [err |-> "nil", hbmi |-> ptr, hm |-> hm,
                  heap |-> Extend(hp, ptr, n.hbmi)]

\* the lookup of line 251 left out: a record is created for every heartbeat
findOrCreateAlwaysCreates(hm, hp, k, maxDur, peerType) ==
    LET n == newHeartbeatMessageInfo(maxDur, peerType, GenesisTime)
        ptr == NewPtr(hp, k)
    IN IF n.err # "nil"
       THEN [err |-> n.err]
       ELSE [err |-> "nil", hbmi |-> ptr, hm |-> Extend(hm, k, ptr),
             heap |-> Extend(hp, ptr, n.hbmi)]

\* lines 251-262: the record of k, created and inserted when k has none
findOrCreate(hm, hp, k, maxDur, peerType) ==
    IF k \in DOMAIN hm
    THEN [err |-> "nil", hbmi |-> hm[k], hm |-> hm, heap |-> hp]
    ELSE LET n == newHeartbeatMessageInfo(maxDur, peerType, GenesisTime)
             ptr == NewPtr(hp, k)
         IN IF n.err # "nil"
            THEN [err |-> n.err]
            ELSE [err |-> "nil", hbmi |-> ptr, hm |-> Extend(hm, k, ptr),
                  heap |-> Extend(hp, ptr, n.hbmi)]

\* lines 250-263, under mutHeartbeatMessages
AddFind(p) ==
    /\ procs[p].type = "add" /\ procs[p].pc = "addFind"
    /\ CanLock
    /\ LET r == findOrCreate(heartbeatMessages, heap, procs[p].hb.Pubkey,
                             maxDurationPeerUnresponsive,
                             computePeerTypeAndShardID(faults).peerType)
       IN IF r.err # "nil"
          THEN /\ procs' = [procs EXCEPT ![p] = Idle]
               /\ UNCHANGED <<heap, heartbeatMessages>>
          ELSE /\ procs' = [procs EXCEPT ![p].pc = "addRecv", ![p].hbmi = r.hbmi]
               /\ heartbeatMessages' = r.hm
               /\ heap' = r.heap
    /\ ret' = NoRet
    /\ UNCHANGED <<now, events, restarts, cfgVars, fullPeersSlice, lockVars, dbVars, ghostVars>>

\* the record's updateMutex is held from the start of HeartbeatReceived until
\* its fields are written; every other section of the mutex is one step
updateMutexHeld(ptr) ==
    \E q \in Procs :
       procs[q].type = "add" /\ procs[q].pc = "addWrite" /\ procs[q].hbmi = ptr

\* lines 265-267: hbmi.HeartbeatReceived takes the record's updateMutex and
\* reads the clock; written is the record as it will be when the call is done
AddRecv(p) ==
    /\ procs[p].type = "add" /\ procs[p].pc = "addRecv"
    /\ ~updateMutexHeld(procs[p].hbmi)
    /\ \E t \in TimerNow :
          /\ now' = t
          /\ events' = events + Advance(t)
          /\ LET r == computePeerTypeAndShardID(faults)
                 hb == procs[p].hb
             IN procs' = [procs EXCEPT ![p] =
                            [type |-> "add", pc |-> "addWrite", hb |-> hb,
                             hbmi |-> procs[p].hbmi,
                             written |->
                                HeartbeatReceived(heap[procs[p].hbmi], r.shardID,
                                                  hb.ShardID, hb.VersionNumber,
                                                  hb.NodeDisplayName, r.peerType, t)]]
    /\ ret' = NoRet
    /\ UNCHANGED <<restarts, cfgVars, heap, heartbeatMessages, fullPeersSlice,
                   lockVars, dbVars, ghostVars>>

\* line 267: HeartbeatReceived has written the fields and releases the
\* record's updateMutex
AddWrite(p) ==
    /\ procs[p].type = "add" /\ procs[p].pc = "addWrite"
    /\ heap' = [heap EXCEPT ![procs[p].hbmi] = procs[p].written]
    /\ procs' = [procs EXCEPT ![p] =
                    [type |-> "add", pc |-> "addExport", hb |-> procs[p].hb,
                     hbmi |-> procs[p].hbmi]]
    /\ ret' = NoRet
    /\ UNCHANGED <<now, events, restarts, cfgVars, heartbeatMessages, fullPeersSlice,
                   lockVars, dbVars, ghostVars>>

\* line 268: convertToExportedStruct, under the record's updateMutex
AddExport(p) ==
    /\ procs[p].type = "add" /\ procs[p].pc = "addExport"
    /\ ~updateMutexHeld(procs[p].hbmi)
    /\ procs' = [procs EXCEPT ![p] =
                    [type |-> "add", pc |-> "addSave", hb |-> procs[p].hb,
                     hbmi |-> procs[p].hbmi,
                     hbDTO |-> convertToExportedStruct(heap[procs[p].hbmi])]]
    /\ ret' = NoRet
    /\ UNCHANGED <<now, events, restarts, cfgVars, heap, heartbeatMessages,
                   fullPeersSlice, lockVars, dbVars, ghostVars>>

\* line 270: storer.SavePubkeyData
AddSave(p) ==
    /\ procs[p].type = "add" /\ procs[p].pc = "addSave"
    /\ dbRecords' = SavePubkeyData(dbRecords, procs[p].hb.Pubkey, procs[p].hbDTO, faults)
    /\ procs' = [procs EXCEPT ![p] =
                    [type |-> "add", pc |-> "addPeer", hb |-> procs[p].hb,
                     hbmi |-> procs[p].hbmi]]
    /\ ret' = NoRet
    /\ UNCHANGED <<now, events, restarts, cfgVars, heap, heartbeatMessages,
                   fullPeersSlice, lockVars, dbKeys, dbGenesis, ghostVars>>

isPeerInFullPeersSlice(peers, pubKey) ==
    \E i \in 1..Len(peers) : peers[i] = pubKey

\* lines 280-281: the slice after addPeerToFullPeersSlice(pubKey)
addPeerToFullPeersSlice(peers, pubKey) ==
    IF ~isPeerInFullPeersSlice(peers, pubKey) THEN Append(peers, pubKey) ELSE peers

\* line 274: addPeerToFullPeersSlice, under mutFullPeersSlice
AddPeer(p) ==
    /\ procs[p].type = "add" /\ procs[p].pc = "addPeer"
    /\ LET peers == addPeerToFullPeersSlice(fullPeersSlice, procs[p].hb.Pubkey)
       IN /\ fullPeersSlice' = peers
          /\ IF peers # fullPeersSlice
             THEN /\ dbKeys' = SaveKeys(dbKeys, peers, faults)
                  /\ saveKeysFailed' = (saveKeysFailed \/ "saveKeys" \in faults)
             ELSE UNCHANGED <<dbKeys, saveKeysFailed>>
    /\ procs' = [procs EXCEPT ![p] = Idle]
    /\ ret' = NoRet
    /\ UNCHANGED <<now, events, restarts, cfgVars, heap, heartbeatMessages, lockVars,
                   dbRecords, dbGenesis, loadableKeys, acceptedKeys, noPriorStorage>>

\* ------------------------------------------- computeAllHeartbeatMessages
\* lines 320-325: the range loop takes the keys in any order; the first turn
\* takes mutHeartbeatMessages; previousActive is read by GetIsActive under
\* the record's updateMutex
CaIter(p) ==
    /\ procs[p].type = "ca" /\ procs[p].pc \in {"caLock", "caIter"}
    /\ procs[p].pc = "caLock" => CanLock
    /\ LET todo == IF procs[p].pc = "caLock" THEN DOMAIN heartbeatMessages
                   ELSE procs[p].todo
       IN \E k \in todo :
             /\ ~updateMutexHeld(heartbeatMessages[k])
             /\ procs' = [procs EXCEPT ![p].pc = "caCompute", ![p].todo = todo,
                          ![p].cur = k,
                          ![p].prev = GetIsActive(heap[heartbeatMessages[k]])]
    /\ mutHeartbeatMessages' = Locked
    /\ ret' = NoRet
    /\ UNCHANGED <<now, events, restarts, cfgVars, heap, heartbeatMessages,
                   fullPeersSlice, dbVars, ghostVars>>

\* line 326
CaCompute(p) ==
    /\ procs[p].type = "ca" /\ procs[p].pc = "caCompute"
    /\ ~updateMutexHeld(heartbeatMessages[procs[p].cur])
    /\ \E t \in TimerNow :
          LET v == heap[heartbeatMessages[procs[p].cur]]
              w == ComputeActive(v, t)
          IN /\ now' = t
             /\ events' = events + Advance(t)
             /\ heap' = [heap EXCEPT ![heartbeatMessages[procs[p].cur]] = w]
             /\ procs' = [procs EXCEPT
                             ![p].pc = "caGet",
                             ![p].transitioned =
                                IF v.isActive /\ ~w.isActive
                                THEN @ \cup {procs[p].cur} ELSE @]
    /\ ret' = NoRet
    /\ UNCHANGED <<restarts, cfgVars, heartbeatMessages, fullPeersSlice,
                   lockVars, dbVars, ghostVars>>

\* lines 327-339: hbChangedStateToInactiveMap after the record of k was evaluated
changedStateToInactive(changed, k, ptr, previousActive, isActive) ==
    IF previousActive /\ ~isActive THEN Extend(changed, k, ptr) ELSE changed

\* lines 342-343 after the last turn: unlock and start
\* SaveMultipleHeartbeatMessageInfos; the caller goes on (GetHeartbeats) or
\* ends (the goroutine of line 243)
computeAllDone(ps, p, changed) ==
    IF ps[p].caller = "gh"
    THEN [ps EXCEPT ![p] = GhFrame, ![ps[p].slot] = SaveFrame(changed)]
    ELSE [ps EXCEPT ![p] = SaveFrame(changed)]

\* lines 327-340, and 342-343 after the last turn
CaGet(p) ==
    /\ procs[p].type = "ca" /\ procs[p].pc = "caGet"
    /\ ~updateMutexHeld(heartbeatMessages[procs[p].cur])
    /\ LET k == procs[p].cur
           v == heartbeatMessages[k]
           changed == changedStateToInactive(procs[p].changed, k, v, procs[p].prev,
                                             GetIsActive(heap[v]))
       IN IF procs[p].todo = {k}
          THEN /\ procs' = computeAllDone(procs, p, changed)
               /\ mutHeartbeatMessages' = Unlocked
          ELSE /\ procs' = [procs EXCEPT ![p].pc = "caIter", ![p].todo = @ \ {k},
                                         ![p].changed = changed]
               /\ UNCHANGED mutHeartbeatMessages
    /\ ret' = NoRet
    /\ UNCHANGED <<now, events, restarts, cfgVars, heap, heartbeatMessages,
                   fullPeersSlice, dbVars, ghostVars>>

\* ------------------------------------ SaveMultipleHeartbeatMessageInfos
\* lines 149-150 when there is nothing to save
SvNone(p) ==
    /\ procs[p].type = "save" /\ procs[p].pc = "svRLock"
    /\ DOMAIN procs[p].toSave = {}
    /\ CanRLock
    /\ procs' = [procs EXCEPT ![p] = Idle]
    /\ ret' = NoRet
    /\ UNCHANGED <<now, events, restarts, cfgVars, heap, heartbeatMessages,
                   fullPeersSlice, lockVars, dbVars, ghostVars>>

\* lines 149-153: the next entry, exported under the record's updateMutex;
\* the first turn takes mutHeartbeatMessages for reading
SvIter(p) ==
    /\ procs[p].type = "save" /\ procs[p].pc \in {"svRLock", "svIter"}
    /\ procs[p].pc = "svRLock" => CanRLock
    /\ \E k \in DOMAIN procs[p].toSave :
          /\ ~updateMutexHeld(procs[p].toSave[k])
          /\ procs' = [procs EXCEPT ![p] =
                       [type |-> "save", pc |-> "svSave", toSave |-> procs[p].toSave,
                        cur |-> k,
                        hbDTO |-> convertToExportedStruct(heap[procs[p].toSave[k]])]]
    /\ mutHeartbeatMessages' =
          IF procs[p].pc = "svRLock"
          THEN [mutHeartbeatMessages EXCEPT !.r = @ + 1]
          ELSE mutHeartbeatMessages
    /\ ret' = NoRet
    /\ UNCHANGED <<now, events, restarts, cfgVars, heap, heartbeatMessages,
                   fullPeersSlice, dbVars, ghostVars>>

\* line 154, and line 150 (deferred) after the last turn
SvSave(p) ==
    /\ procs[p].type = "save" /\ procs[p].pc = "svSave"
    /\ dbRecords' = SavePubkeyData(dbRecords, procs[p].cur, procs[p].hbDTO, faults)
    /\ LET rest == DOMAIN procs[p].toSave \ {procs[p].cur}
       IN IF rest = {}
          THEN /\ procs' = [procs EXCEPT ![p] = Idle]
               /\ mutHeartbeatMessages' = [mutHeartbeatMessages EXCEPT !.r = @ - 1]
          ELSE /\ procs' = [procs EXCEPT ![p] =
                               [type |-> "save", pc |-> "svIter",
                                toSave |-> Restrict(procs[p].toSave, rest)]]
               /\ UNCHANGED mutHeartbeatMessages
    /\ ret' = NoRet
    /\ UNCHANGED <<now, events, restarts, cfgVars, heap, heartbeatMessages,
                   fullPeersSlice, dbKeys, dbGenesis, ghostVars>>

\* -------------------------------------------------------- GetHeartbeats
\* hex.EncodeToString: two lower-case hex digits per byte, as character codes
hexDigit(d) == IF d < 10 THEN 48 + d ELSE 87 + d
RECURSIVE hexEncodeToString(_)
hexEncodeToString(bytes) ==
    IF bytes = <<>> THEN <<>>
    ELSE <<hexDigit(Head(bytes) \div 16), hexDigit(Head(bytes) % 16)>>
         \o hexEncodeToString(Tail(bytes))

\* strings.Compare: -1, 0 or 1 by byte-wise lexicographic order
RECURSIVE stringsCompare(_, _)
stringsCompare(a, b) ==
    IF a = <<>> /\ b = <<>> THEN 0
    ELSE IF a = <<>> THEN -1
    ELSE IF b = <<>> THEN 1
    ELSE IF Head(a) < Head(b) THEN -1
    ELSE IF Head(a) > Head(b) THEN 1
    ELSE stringsCompare(Tail(a), Tail(b))

\* the arguments of strings.Compare swapped
lessSwapped(x, y) == stringsCompare(y.HexPublicKey, x.HexPublicKey) < 0

\* the less function of line 375
less(x, y) == stringsCompare(x.HexPublicKey, y.HexPublicKey) < 0

\* sort.Slice(status, less)
RECURSIVE insertSorted(_, _)
insertSorted(x, s) ==
    IF s = <<>> THEN <<x>>
    ELSE IF less(x, Head(s)) THEN <<x>> \o s
    ELSE <<Head(s)>> \o insertSorted(x, Tail(s))

RECURSIVE sortSlice(_)
sortSlice(s) ==
    IF s = <<>> THEN <<>> ELSE insertSorted(Head(s), sortSlice(Tail(s)))

\* lines 357-369
PubKeyHeartbeat(k, v) ==
    [HexPublicKey |-> hexEncodeToString(k),
     TimeStamp |-> v.timeStamp,
     MaxInactiveTime |-> v.maxInactiveTime,
     IsActive |-> v.isActive,
     ReceivedShardID |-> v.receivedShardID,
     ComputedShardID |-> v.computedShardID,
     TotalUpTime |-> Seconds(v.totalUpTime),
     TotalDownTime |-> Seconds(v.totalDownTime),
     VersionNumber |-> v.versionNumber,
     NodeDisplayName |-> v.nodeDisplayName,
     PeerType |-> v.peerType]

\* the orders in which a range loop can visit the keys of a map
IterationOrders(S) ==
    { o \in [1..Cardinality(S) -> S] : \A i, j \in DOMAIN o : o[i] = o[j] => i = j }

\* lines 354-372: status as filled by the loop visiting the keys in order o
buildStatus(hm, hp, o) == [i \in DOMAIN o |-> PubKeyHeartbeat(o[i], hp[hm[o[i]]])]

\* GetHeartbeats is called: computeAllHeartbeatMessages runs in the caller
GetHeartbeats ==
    /\ up
    /\ events < MaxEvents
    /\ events' = events + 1
    /\ Cardinality(FreeSlots) >= 2
    /\ LET p1 == FirstFree(FreeSlots)
           p2 == FirstFree(FreeSlots \ {p1})
       IN procs' = [procs EXCEPT ![p1] = CaFrame("gh", p2), ![p2] = Reserved]
    /\ ret' = NoRet
    /\ UNCHANGED <<now, restarts, cfgVars, heap, heartbeatMessages, fullPeersSlice,
                   lockVars, dbVars, ghostVars>>

\* the fields HeartbeatReceived assigns
HeartbeatReceivedFields ==
    {"isActive", "timeStamp", "computedShardID", "receivedShardID",
     "versionNumber", "nodeDisplayName", "peerType"}

\* the records a HeartbeatReceived call is writing
BeingWritten ==
    { procs[q].hbmi : q \in { r \in Procs : procs[r].type = "add" /\ procs[r].pc = "addWrite" } }

\* the record the call writing ptr will leave
WrittenValue(ptr) ==
    LET q == CHOOSE r \in Procs :
                procs[r].type = "add" /\ procs[r].pc = "addWrite" /\ procs[r].hbmi = ptr
    IN procs[q].written

\* lines 359-368 read the fields without the record's updateMutex: of a
\* record that is being written, each field is read as it was or as it will
\* be; done[ptr] is the set of fields already written when they are read
RacyReads ==
    { [ptr \in DOMAIN heap |->
          IF ptr \in BeingWritten
          THEN [f \in DOMAIN heap[ptr] |->
                   IF f \in done[ptr] THEN WrittenValue(ptr)[f] ELSE heap[ptr][f]]
          ELSE heap[ptr]] : done \in [BeingWritten -> SUBSET HeartbeatReceivedFields] }

\* lines 353-379, under mutHeartbeatMessages
GhBuild(p) ==
    /\ procs[p].type = "gh" /\ procs[p].pc = "ghLock"
    /\ CanLock
    /\ \E o \in IterationOrders(DOMAIN heartbeatMessages), hp \in RacyReads :
          ret' = [op |-> "GetHeartbeats",
                  status |-> sortSlice(buildStatus(heartbeatMessages, hp, o))]
    /\ procs' = [procs EXCEPT ![p] = Idle]
    /\ UNCHANGED <<now, events, restarts, cfgVars, heap, heartbeatMessages,
                   fullPeersSlice, lockVars, dbVars, ghostVars>>

Init ==
    /\ now = GenesisTime
    /\ up = FALSE
    /\ events = 0
    /\ restarts = 0
    /\ nilFields = {}
    /\ faults = {}
    /\ maxDurationPeerUnresponsive = 0
    /\ heap = <<>>
    /\ heartbeatMessages = <<>>
    /\ pubKeysMap = EmptyPubKeysMap
    /\ fullPeersSlice = <<>>
    /\ mutHeartbeatMessages = [w |-> FALSE, r |-> 0]
    /\ procs = [p \in Procs |-> Idle]
    /\ dbRecords = <<>>
    /\ dbKeys = <<>>
    /\ dbGenesis = <<>>
    /\ ret = NoRet
    /\ loadableKeys = {}
    /\ acceptedKeys = {}
    /\ noPriorStorage = FALSE
    /\ saveKeysFailed = FALSE

Next ==
    \/ \E in \in NewMonitorInputs : NewMonitor(in)
    \/ \E t \in RestartTimes : Restart(t)
    \/ \E msg \in Messages : ProcessReceivedMessage(msg)
    \/ \E p \in Procs : AddFind(p)
    \/ \E p \in Procs : AddRecv(p)
    \/ \E p \in Procs : AddWrite(p)
    \/ \E p \in Procs : AddExport(p)
    \/ \E p \in Procs : AddSave(p)
    \/ \E p \in Procs : AddPeer(p)
    \/ \E p \in Procs : CaIter(p)
    \/ \E p \in Procs : CaCompute(p)
    \/ \E p \in Procs : CaGet(p)
    \/ \E p \in Procs : SvNone(p)
    \/ \E p \in Procs : SvIter(p)
    \/ \E p \in Procs : SvSave(p)
    \/ GetHeartbeats
    \/ \E p \in Procs : GhBuild(p)

Spec == Init /\ [][Next]_vars

\* One run of the process, with the scheduling of Go: a goroutine that can
\* take a step is eventually run, and a goroutine waiting for a mutex gets it
\* once the holders have released it.
GoroutineStep(p) ==
    \/ AddFind(p)
    \/ AddRecv(p)
    \/ AddWrite(p)
    \/ AddExport(p)
    \/ AddSave(p)
    \/ AddPeer(p)
    \/ CaIter(p)
    \/ CaCompute(p)
    \/ CaGet(p)
    \/ SvNone(p)
    \/ SvIter(p)
    \/ SvSave(p)
    \/ GhBuild(p)

FairNext ==
    \/ \E in \in NewMonitorInputs : NewMonitor(in)
    \/ \E msg \in Messages : ProcessReceivedMessage(msg)
    \/ GetHeartbeats
    \/ \E p \in Procs : GoroutineStep(p)

FairSpec ==
    /\ Init
    /\ [][FairNext]_vars
    /\ \A p \in Procs : WF_vars(GoroutineStep(p))

\* ------------------------------------------------ one record on its own
\* The operations on a heartbeatMessageInfo, applied in any order to one
\* record that starts in any state: ComputeActive and HeartbeatReceived at
\* clock readings that do not go back, the export to a HeartbeatDTO and the
\* import of the DTO exported last.
RecordKey == KeyA
RecordPtr == <<RecordKey, 1>>
RecordTimes == GenesisTime..MaxClock

RecordStates ==
    [maxDurationPeerUnresponsive : {MaxInactive},
     maxInactiveTime : {MaxInactive},
     isActive : BOOLEAN,
     receivedShardID : {0},
     computedShardID : {0},
     versionNumber : {""},
     nodeDisplayName : {""},
     peerType : {ObserverList},
     timeStamp : {NoHeartbeatTime} \cup RecordTimes,
     totalUpTime : 0..1,
     totalDownTime : 0..1,
     lastUptimeDowntime : RecordTimes,
     genesisTime : {GenesisTime}]

RecordInit ==
    /\ now \in RecordTimes
    /\ up = FALSE
    /\ events = 0
    /\ restarts = 0
    /\ nilFields = {}
    /\ faults = {}
    /\ maxDurationPeerUnresponsive = MaxInactive
    /\ heap \in [{RecordPtr} -> RecordStates]
    /\ heartbeatMessages = [k \in {RecordKey} |-> RecordPtr]
    /\ pubKeysMap = EmptyPubKeysMap
    /\ fullPeersSlice = <<>>
    /\ mutHeartbeatMessages = Unlocked
    /\ procs = [p \in Procs |-> Idle]
    /\ dbRecords = <<>>
    /\ dbKeys = <<>>
    /\ dbGenesis = <<>>
    /\ ret = NoRet
    /\ loadableKeys = {}
    /\ acceptedKeys = {}
    /\ noPriorStorage = FALSE
    /\ saveKeysFailed = FALSE

\* what a record operation leaves alone besides the record, the clock, the
\* stored DTO and ret
recordFrame ==
    <<up, events, restarts, cfgVars, heartbeatMessages, fullPeersSlice, lockVars,
      procs, dbKeys, dbGenesis, ghostVars>>

\* v.ComputeActive(m.timer.Now()); again tells that the call before was a
\* ComputeActive at the same instant
RecordComputeActive ==
    \E t \in now..MaxClock :
       /\ now' = t
       /\ heap' = [heap EXCEPT ![RecordPtr] = ComputeActive(@, t)]
       /\ ret' = [op |-> "ComputeActive", crtTime |-> t,
                  again |-> (ret.op = "ComputeActive" /\ ret.crtTime = t)]
       /\ UNCHANGED <<dbRecords, recordFrame>>

\* hbmi.HeartbeatReceived with what a heartbeat and the resolver give
RecordHeartbeatReceived ==
    \E t \in now..MaxClock :
       LET r == computePeerTypeAndShardID({})
           hb == Heartbeat(RecordKey)
       IN /\ now' = t
          /\ heap' = [heap EXCEPT ![RecordPtr] =
                         HeartbeatReceived(@, r.shardID, hb.ShardID, hb.VersionNumber,
                                           hb.NodeDisplayName, r.peerType, t)]
          /\ ret' = [op |-> "HeartbeatReceived"]
          /\ UNCHANGED <<dbRecords, recordFrame>>

\* hbDTO := m.convertToExportedStruct(hbmi), kept as the stored DTO
RecordExport ==
    /\ dbRecords' = [k \in {RecordKey} |-> convertToExportedStruct(heap[RecordPtr])]
    /\ ret' = [op |-> "convertToExportedStruct"]
    /\ UNCHANGED <<now, heap, recordFrame>>

\* m.convertFromExportedStruct(*hbmiDTO, m.maxDurationPeerUnresponsive) of
\* the stored DTO; exported tells that the DTO was exported by the call
\* before from the record as it was then, which is kept in original
RecordImport ==
    /\ RecordKey \in DOMAIN dbRecords
    /\ heap' = [heap EXCEPT ![RecordPtr] =
                   convertFromExportedStruct(dbRecords[RecordKey],
                                             maxDurationPeerUnresponsive)]
    /\ ret' = [op |-> "convertFromExportedStruct",
               exported |-> (ret.op = "convertToExportedStruct"),
               original |-> heap[RecordPtr]]
    /\ UNCHANGED <<now, dbRecords, recordFrame>>

RecordNext ==
    \/ RecordComputeActive
    \/ RecordHeartbeatReceived
    \/ RecordExport
    \/ RecordImport

RecordSpec == RecordInit /\ [][RecordNext]_vars

\* ------------------------------------------------------------------ C1
C1_Checks == <<"isNil", "dataNil", "floodErr", "topicErr", "decodeErr">>
C1_Errors ==
    <<"ErrNilMessage", "ErrNilDataToProcess", "ErrCanProcessMessage",
      "ErrCanProcessMessageOnTopic", "ErrCreateHeartbeat">>
C1_Failing(msg) == { i \in 1..5 : msg[C1_Checks[i]] }
C1_FirstFailing(msg) ==
    C1_Errors[CHOOSE i \in C1_Failing(msg) : \A j \in C1_Failing(msg) : i <= j]

\* C1: a call of ProcessReceivedMessage with a message that fails a check
\* returns the error of the first failing check (nil message, nil payload,
\* per-peer admission, topic admission, decoding, in this order) and changes
\* nothing: no record, no known peer, nothing persisted, no goroutine started.
C1_RejectedLeavesMonitorUnchanged ==
    [][ret'.op = "ProcessReceivedMessage" =>
          \A msg \in Messages :
             (/\ C1_Failing(msg) # {}
              /\ ret'.err = ProcessReceivedMessageErr(msg)
              /\ ProcessReceivedMessage(msg))
                => /\ ret'.err = C1_FirstFailing(msg)
                   /\ UNCHANGED <<now, monVars, dbVars, ghostVars>>]_vars

\* a message is rejected by the topic admission check while goroutines of
\* earlier heartbeats are running
C1_Witness ==
    /\ ret.op = "ProcessReceivedMessage"
    /\ ret.err = "ErrCanProcessMessageOnTopic"
    /\ \E p \in Procs : procs[p].type = "add"

\* ------------------------------------------------------------------ C2
C2_Assigned(pkm) ==
    { k \in Keys : \E s \in DOMAIN pkm : \E i \in 1..Len(pkm[s]) : pkm[s][i] = k }

\* the creation of a fresh record fails for some assigned key
C2_InitFails ==
    /\ ret.in.maxDur = 0
    /\ \E k \in C2_Assigned(ret.in.pubKeysMap) :
          k \notin DOMAIN dbRecords \/ "loadHbmi" \in ret.in.faults

\* C2: NewMonitor returns either a Monitor and a nil error or no Monitor and
\* an error; it returns no Monitor exactly when a collaborator is nil, the
\* role assignment is empty, the genesis-time update fails or the
\* initialization of a record fails (so a failing load of the persisted
\* known-peers list does not make it fail); a returned Monitor has every
\* collaborator and a record for every assigned key.
C2_NeverPartiallyInitialized ==
    ret.op = "NewMonitor" =>
        /\ ret.mon <=> ret.err = "nil"
        /\ ret.mon <=> up
        /\ ~ret.mon <=> \/ ret.in.nils # {}
                        \/ DOMAIN ret.in.pubKeysMap = {}
                        \/ ret.in.genesisFails
                        \/ C2_InitFails
        /\ ret.mon =>
              /\ nilFields = {}
              /\ pubKeysMap = ret.in.pubKeysMap
              /\ maxDurationPeerUnresponsive = ret.in.maxDur
              /\ \A k \in C2_Assigned(ret.in.pubKeysMap) :
                    /\ k \in DOMAIN heartbeatMessages
                    /\ heartbeatMessages[k] \in DOMAIN heap

\* a Monitor is built although the persisted known-peers list, which is not
\* empty, cannot be loaded
C2_Witness ==
    /\ ret.op = "NewMonitor"
    /\ ret.mon
    /\ "loadKeys" \in ret.in.faults
    /\ dbKeys # <<>>

\* ------------------------------------------------------------------ C3
C3_Assigned == C2_Assigned(pubKeysMap)

\* C3: a Monitor built on an empty storage tracks exactly one record for
\* every assigned key and no other, each of them inactive; a snapshot taken
\* before any heartbeat was accepted has exactly one entry for every
\* assigned key, each with IsActive = FALSE.
C3_FreshMonitorAllInactive ==
    /\ (ret.op = "NewMonitor" /\ ret.mon /\ noPriorStorage) =>
          /\ DOMAIN heartbeatMessages = C3_Assigned
          /\ DOMAIN heap = { heartbeatMessages[k] : k \in C3_Assigned }
          /\ \A k \in C3_Assigned : ~heap[heartbeatMessages[k]].isActive
    /\ (ret.op = "GetHeartbeats" /\ noPriorStorage /\ acceptedKeys = {}) =>
          /\ Len(ret.status) = Cardinality(C3_Assigned)
          /\ \A k \in C3_Assigned :
                \E i \in 1..Len(ret.status) :
                   ret.status[i].HexPublicKey = hexEncodeToString(k)
          /\ \A i \in 1..Len(ret.status) : ~ret.status[i].IsActive

\* a snapshot of two assigned keys is taken on an empty storage, before any
\* heartbeat, after the clock has advanced
C3_Witness ==
    /\ ret.op = "GetHeartbeats"
    /\ noPriorStorage
    /\ acceptedKeys = {}
    /\ Len(ret.status) = 2
    /\ now > GenesisTime

\* ------------------------------------------------------------------ C4
\* goroutine p is about to apply a heartbeat
C4_Pending(p) == procs[p].type = "add" /\ procs[p].pc = "addFind"

\* goroutine p has just applied its heartbeat to the record of the sender:
\* the record is active and its timeStamp is a reading of the clock
C4_Applied(p) ==
    /\ procs[p].type = "add"
    /\ procs[p].pc = "addExport"
    /\ procs[p].hb.Pubkey \in DOMAIN heartbeatMessages
    /\ heartbeatMessages[procs[p].hb.Pubkey] = procs[p].hbmi
    /\ heap[procs[p].hbmi].isActive
    /\ heap[procs[p].hbmi].timeStamp \in GenesisTime..now
    /\ heap[procs[p].hbmi].versionNumber = procs[p].hb.VersionNumber

\* C4: when ProcessReceivedMessage returns nil a goroutine is pending that
\* will apply the heartbeat of the sender; under fair scheduling every
\* pending goroutine eventually applies its heartbeat to the record the map
\* holds for the sender; and every evaluation of a record at a time less
\* than maxInactiveTime after its timeStamp leaves the record active.
C4_AcceptedHeartbeatApplied ==
    /\ [](ret.op = "ProcessReceivedMessage" /\ ret.err = "nil" =>
             \E p \in Procs : C4_Pending(p) /\ procs[p].hb.Pubkey = ret.key)
    /\ \A p \in Procs : C4_Pending(p) ~> C4_Applied(p)
    /\ [][\A p \in Procs :
             (/\ procs[p].type = "ca" /\ procs[p].pc = "caCompute"
              /\ procs'[p].type = "ca" /\ procs'[p].pc = "caGet")
                => LET w == heap'[heartbeatMessages[procs[p].cur]]
                   IN now' - w.timeStamp < w.maxInactiveTime => w.isActive]_vars

\* an evaluation pass has just evaluated, at the instant of the heartbeat,
\* the record of a key whose heartbeat was applied, and left it active
C4_Witness ==
    \E p \in Procs :
       /\ procs[p].type = "ca"
       /\ procs[p].pc = "caGet"
       /\ procs[p].cur \in acceptedKeys
       /\ LET v == heap[heartbeatMessages[procs[p].cur]]
          IN /\ v.isActive
             /\ v.timeStamp = now
             /\ v.lastUptimeDowntime = now
             /\ v.versionNumber = "v1"

\* ------------------------------------------------------------------ C5
\* C5: when a record is active and its accounting watermark is the instant
\* T of its last heartbeat, an evaluation at T + maxInactiveTime + 1 makes
\* it inactive, adds maxInactiveTime to totalUpTime and adds 1 to
\* totalDownTime.
C5_GraceExpiryAccounting ==
    [][\A p \in Procs :
          (/\ procs[p].type = "ca" /\ procs[p].pc = "caCompute"
           /\ procs'[p].type = "ca" /\ procs'[p].pc = "caGet")
             => LET ptr == heartbeatMessages[procs[p].cur]
                    v == heap[ptr]
                    w == heap'[ptr]
                IN (/\ v.isActive
                    /\ v.lastUptimeDowntime = v.timeStamp
                    /\ now' = v.timeStamp + v.maxInactiveTime + 1)
                      => /\ ~w.isActive
                         /\ w.totalUpTime = v.totalUpTime + v.maxInactiveTime
                         /\ w.totalDownTime = v.totalDownTime + 1]_vars

\* ------------------------------------------------------------------ C6
C6_PastFind == {"addRecv", "addWrite", "addExport", "addSave", "addPeer"}

\* C6: whatever the interleaving of the goroutines of concurrent heartbeats,
\* no key ever has more than one record, every heartbeat update works on the
\* record the map holds for its sender, and fullPeersSlice holds no key
\* twice.
C6_OneRecordPerSender ==
    /\ \A k \in Keys : Cardinality({ q \in DOMAIN heap : q[1] = k }) <= 1
    /\ \A p \in Procs :
          (procs[p].type = "add" /\ procs[p].pc \in C6_PastFind) =>
             /\ procs[p].hb.Pubkey \in DOMAIN heartbeatMessages
             /\ heartbeatMessages[procs[p].hb.Pubkey] = procs[p].hbmi
             /\ procs[p].hbmi \in DOMAIN heap
    /\ \A i, j \in 1..Len(fullPeersSlice) :
          fullPeersSlice[i] = fullPeersSlice[j] => i = j

\* two heartbeats of the unseen key B are being applied at the same time
C6_Witness ==
    /\ restarts = 0
    /\ KeyB \notin C3_Assigned
    /\ \E p, q \in Procs :
          /\ p # q
          /\ procs[p].type = "add" /\ procs[p].pc \in C6_PastFind
          /\ procs[q].type = "add" /\ procs[q].pc \in C6_PastFind
          /\ procs[p].hb.Pubkey = KeyB
          /\ procs[q].hb.Pubkey = KeyB

\* ------------------------------------------------------------------ C7
\* every key of old is in new, and in the same relative order
C7_KeptInOrder(old, new) ==
    /\ \A i \in 1..Len(old) : \E j \in 1..Len(new) : new[j] = old[i]
    /\ \A i1, i2 \in 1..Len(old) :
          i1 < i2 => \E j1, j2 \in 1..Len(new) :
                        j1 < j2 /\ new[j1] = old[i1] /\ new[j2] = old[i2]

\* C7: as long as no SaveKeys call has failed, every step, restarts
\* included, keeps every key of the persisted known-peers list in the list,
\* in the same relative order.
C7_PersistedPeersAppendOnly ==
    [][~saveKeysFailed' => C7_KeptInOrder(dbKeys, dbKeys')]_vars

\* ------------------------------------------------------------------ C8
C8_Loaded ==
    { k \in DOMAIN heartbeatMessages \cap DOMAIN dbRecords :
         "loadHbmi" \notin ret.in.faults }
C8_Elapsed(k) ==
    IF now > dbRecords[k].LastUptimeDowntime
    THEN now - dbRecords[k].LastUptimeDowntime
    ELSE 0

\* C8: when NewMonitor returns at time now, every record it adopted from the
\* storer has the persisted totalUpTime and totalDownTime, plus the time
\* elapsed since the persisted watermark (0 when the watermark is later than
\* now) on totalUpTime when the persisted isActive is TRUE and on
\* totalDownTime when it is FALSE, and has now as its watermark.
C8_ReloadCatchesUpAccounting ==
    (ret.op = "NewMonitor" /\ ret.mon) =>
        \A k \in C8_Loaded :
           LET d == dbRecords[k]
               v == heap[heartbeatMessages[k]]
           IN /\ v.totalUpTime =
                    d.TotalUpTime + (IF d.IsActive THEN C8_Elapsed(k) ELSE 0)
              /\ v.totalDownTime =
                    d.TotalDownTime + (IF d.IsActive THEN 0 ELSE C8_Elapsed(k))
              /\ v.lastUptimeDowntime = now
              /\ v.totalUpTime + v.totalDownTime =
                    d.TotalUpTime + d.TotalDownTime + C8_Elapsed(k)

\* a record persisted as active is adopted after its watermark
C8_Witness ==
    /\ ret.op = "NewMonitor"
    /\ ret.mon
    /\ \E k \in C8_Loaded :
          dbRecords[k].IsActive /\ now > dbRecords[k].LastUptimeDowntime

\* ------------------------------------------------------------------ C9
\* a is before b in the byte-wise lexicographic order
C9_Before(a, b) ==
    \E n \in 0..Len(a) :
       /\ n <= Len(b)
       /\ \A i \in 1..n : a[i] = b[i]
       /\ \/ n = Len(a) /\ n < Len(b)
          \/ n < Len(a) /\ n < Len(b) /\ a[n + 1] < b[n + 1]

\* C9: what GetHeartbeats returns has exactly one entry for every key of the
\* records map and no other entry, and its entries are in strictly ascending
\* order of their hex-encoded keys.
C9_SnapshotSortedOnePerKey ==
    ret.op = "GetHeartbeats" =>
        /\ Len(ret.status) = Cardinality(DOMAIN heartbeatMessages)
        /\ \A k \in DOMAIN heartbeatMessages :
              \E i \in 1..Len(ret.status) :
                 ret.status[i].HexPublicKey = hexEncodeToString(k)
        /\ \A i, j \in 1..Len(ret.status) :
              i < j => C9_Before(ret.status[i].HexPublicKey,
                                 ret.status[j].HexPublicKey)

\* a snapshot of two records is returned
C9_Witness ==
    /\ ret.op = "GetHeartbeats"
    /\ Len(ret.status) = 2

\* ----------------------------------------------------------------- C10
\* C10: while a Monitor runs no step removes or replaces a record of the
\* map, and after every step every tracked key is an assigned key, the
\* sender of an accepted heartbeat, or a key of the persisted known-peers
\* list whose record could be loaded when the Monitor was built.
C10_TrackedKeysOnlyGrow ==
    [][/\ (up /\ up') =>
            \A k \in DOMAIN heartbeatMessages :
               /\ k \in DOMAIN heartbeatMessages'
               /\ heartbeatMessages'[k] = heartbeatMessages[k]
       /\ DOMAIN heartbeatMessages' \subseteq
             C2_Assigned(pubKeysMap') \cup acceptedKeys' \cup loadableKeys']_vars

\* a key that is not assigned and sent no heartbeat to this Monitor is
\* tracked because it was loaded from the storer
C10_Witness ==
    /\ up
    /\ KeyB \in DOMAIN heartbeatMessages
    /\ KeyB \notin C3_Assigned
    /\ KeyB \notin acceptedKeys

\* ----------------------------------------------------------------- C11
\* C11: every ComputeActive call adds max(0, now - lastUptimeDowntime) to
\* totalUpTime when the record was active before the call and to
\* totalDownTime when it was not, and leaves the other total as it was, so
\* the sum of the totals grows by exactly that delta and no total ever
\* decreases; HeartbeatReceived changes neither total.
C11_CreditsOneTotal ==
    [][LET v == heap[RecordPtr]
           w == heap'[RecordPtr]
           delta == IF now' > v.lastUptimeDowntime
                    THEN now' - v.lastUptimeDowntime ELSE 0
       IN /\ ret'.op = "ComputeActive" =>
               /\ v.isActive => /\ w.totalUpTime = v.totalUpTime + delta
                                /\ w.totalDownTime = v.totalDownTime
               /\ ~v.isActive => /\ w.totalDownTime = v.totalDownTime + delta
                                 /\ w.totalUpTime = v.totalUpTime
               /\ w.totalUpTime + w.totalDownTime =
                     v.totalUpTime + v.totalDownTime + delta
               /\ w.totalUpTime >= v.totalUpTime
               /\ w.totalDownTime >= v.totalDownTime
          /\ ret'.op = "HeartbeatReceived" =>
               /\ w.totalUpTime = v.totalUpTime
               /\ w.totalDownTime = v.totalDownTime]_vars

\* evaluations have credited time to both totals of a record
C11_Witness ==
    /\ ret.op = "ComputeActive"
    /\ heap[RecordPtr].totalUpTime >= 2
    /\ heap[RecordPtr].totalDownTime >= 2

\* ----------------------------------------------------------------- C12
C12_Fields == {"totalUpTime", "totalDownTime", "isActive", "lastUptimeDowntime"}

\* C12: a ComputeActive call that follows a ComputeActive call at the same
\* instant leaves totalUpTime, totalDownTime, isActive and
\* lastUptimeDowntime as the first call left them.
C12_EvaluateIdempotentAtInstant ==
    [][(ret'.op = "ComputeActive" /\ ret'.again) =>
          \A f \in C12_Fields : heap'[RecordPtr][f] = heap[RecordPtr][f]]_vars

\* a record was evaluated twice at an instant at which the first evaluation
\* had time to credit
C12_Witness ==
    /\ ret.op = "ComputeActive"
    /\ ret.again
    /\ heap[RecordPtr].totalUpTime + heap[RecordPtr].totalDownTime >= 3

\* ----------------------------------------------------------------- C13
C13_Fields ==
    {"isActive", "receivedShardID", "computedShardID", "versionNumber",
     "nodeDisplayName", "peerType", "timeStamp", "maxInactiveTime", "totalUpTime",
     "totalDownTime", "lastUptimeDowntime", "genesisTime"}

C14_SaveSlot(p) == IF procs[p].caller = "gh" THEN procs[p].slot ELSE p

\* C14: when a computeAllHeartbeatMessages pass ends, the records it hands
\* to SaveMultipleHeartbeatMessageInfos are exactly the records that a
\* ComputeActive call of this pass turned from active to inactive.
C14_PersistsExactlyTransitioned ==
    [][\A p \in Procs :
          (/\ procs[p].type = "ca" /\ procs[p].pc = "caGet"
           /\ procs[p].todo = {procs[p].cur}
           /\ procs'[C14_SaveSlot(p)].type = "save"
           /\ procs'[C14_SaveSlot(p)] # procs[C14_SaveSlot(p)])
             => DOMAIN procs'[C14_SaveSlot(p)].toSave = procs[p].transitioned]_vars

\* ----------------------------------------------------------------- C15
\* C15: no goroutine that is about to call the storer (SavePubkeyData,
\* SaveKeys) or the peer type provider (ComputeForPubKey) holds
\* mutHeartbeatMessages, for reading or for writing.
C15_NoCollaboratorCallUnderMapLock ==
    \A p \in Procs : AtCollaboratorCall(procs[p]) => ~HoldsMapLock(procs[p])

\* ----------------------------------------------------------------- C16
\* C16: no goroutine holds mutHeartbeatMessages and a record's updateMutex
\* at the same time: a goroutine that takes a record's updateMutex does not
\* hold mutHeartbeatMessages, and a goroutine that holds a record's
\* updateMutex neither holds nor takes mutHeartbeatMessages.
C16_MapLockAndRecordLockDisjoint ==
    \A p \in Procs :
       /\ (TakesUpdateMutex(procs[p]) /\ ~TakesMapLock(procs[p]))
             => ~HoldsMapLock(procs[p])
       /\ HoldsUpdateMutex(procs[p])
             => ~HoldsMapLock(procs[p]) /\ ~TakesMapLock(procs[p])

\* ----------------------------------------------------------------- C20
\* C20: GetHeartbeats never reads the fields of the records while a
\* HeartbeatReceived call is writing the fields of one of them.
C20_SnapshotExcludesHeartbeatWrite ==
    [][\A p \in Procs :
          (/\ procs[p].type = "gh" /\ procs[p].pc = "ghLock"
           /\ procs'[p].type = "idle"
           /\ ret'.op = "GetHeartbeats")
             => BeingWritten = {}]_vars

\* ----------------------------------------------------------------- C17
\* C17: the lastUptimeDowntime of a record never goes back: no step of a
\* running Monitor lowers it, and a record adopted from the storer has a
\* lastUptimeDowntime that is not earlier than the persisted one.
C17_WatermarkNeverGoesBack ==
    /\ [][\A ptr \in DOMAIN heap \cap DOMAIN heap' :
             heap'[ptr].lastUptimeDowntime >= heap[ptr].lastUptimeDowntime]_vars
    /\ []((ret.op = "NewMonitor" /\ ret.mon) =>
             \A k \in C8_Loaded :
                heap[heartbeatMessages[k]].lastUptimeDowntime >=
                   dbRecords[k].LastUptimeDowntime)

\* ----------------------------------------------------------------- C18
\* goroutine p of addHeartbeatMessageToMap takes its step from pc
C18_AddStep(p, pc) ==
    /\ procs[p].type = "add"
    /\ procs[p].pc = pc
    /\ procs'[p] # procs[p]
    /\ restarts' = restarts

\* C18: a failing collaborator does not stop the update of a heartbeat.
\* HeartbeatReceived makes the record active with the metadata of the
\* heartbeat, and with role observer and computed shard 0 when
\* ComputeForPubKey fails; after SavePubkeyData, failed or not, the record is
\* as it was and the goroutine goes on to addPeerToFullPeersSlice; after
\* addPeerToFullPeersSlice the key is in fullPeersSlice, also when SaveKeys
\* fails and the persisted list stays as it was.
C18_FailuresDoNotStopUpdate ==
    [][\A p \in Procs :
          /\ C18_AddStep(p, "addRecv") =>
                /\ procs'[p].type = "add"
                /\ procs'[p].pc = "addWrite"
                /\ LET w == procs'[p].written
                       hb == procs[p].hb
                   IN /\ w.isActive
                      /\ w.timeStamp = now'
                      /\ w.versionNumber = hb.VersionNumber
                      /\ w.nodeDisplayName = hb.NodeDisplayName
                      /\ w.receivedShardID = hb.ShardID
                      /\ "resolver" \in faults =>
                            w.peerType = ObserverList /\ w.computedShardID = 0
          /\ C18_AddStep(p, "addWrite") =>
                /\ procs'[p].type = "add"
                /\ procs'[p].pc = "addExport"
                /\ heap'[procs[p].hbmi] = procs[p].written
          /\ C18_AddStep(p, "addSave") =>
                /\ procs'[p].type = "add"
                /\ procs'[p].pc = "addPeer"
                /\ heap' = heap
                /\ "savePubkey" \in faults => dbRecords' = dbRecords
          /\ C18_AddStep(p, "addPeer") =>
                /\ procs[p].hb.Pubkey \in Range(fullPeersSlice')
                /\ heap' = heap
                /\ "saveKeys" \in faults => dbKeys' = dbKeys]_vars

\* the update of a heartbeat of B is complete although ComputeForPubKey
\* fails: the record is active with the metadata of the heartbeat, role
\* observer and shard 0, and B is a known peer
C18_Witness ==
    /\ "resolver" \in faults
    /\ KeyB \in DOMAIN heartbeatMessages
    /\ KeyB \in Range(fullPeersSlice)
    /\ LET v == heap[heartbeatMessages[KeyB]]
       IN /\ v.isActive
          /\ v.versionNumber = "v1"
          /\ v.peerType = ObserverList
          /\ v.computedShardID = 0

\* the update is complete although SavePubkeyData fails
C18_WitnessSaveFails ==
    /\ "savePubkey" \in faults
    /\ KeyB \in DOMAIN heartbeatMessages
    /\ KeyB \in Range(fullPeersSlice)
    /\ KeyB \notin DOMAIN dbRecords
    /\ heap[heartbeatMessages[KeyB]].isActive
    /\ heap[heartbeatMessages[KeyB]].versionNumber = "v1"

\* the update is complete although SaveKeys fails
C18_WitnessSaveKeysFails ==
    /\ "saveKeys" \in faults
    /\ KeyB \in Range(fullPeersSlice)
    /\ KeyB \notin Range(dbKeys)
    /\ KeyB \in DOMAIN dbRecords

\* ----------------------------------------------------------------- C19
\* mutHeartbeatMessages is held exactly by the goroutines that stand between
\* a Lock and its Unlock or between an RLock and its RUnlock
C19_LocksReleased ==
    /\ mutHeartbeatMessages.w =
          (\E p \in Procs : procs[p].type = "ca" /\ HoldsMapLock(procs[p]))
    /\ mutHeartbeatMessages.r =
          Cardinality({ p \in Procs :
                          procs[p].type = "save" /\ HoldsMapLock(procs[p]) })

\* a goroutine that holds a record's updateMutex does not wait for
\* mutHeartbeatMessages
C19_LockOrder ==
    \A p \in Procs : HoldsUpdateMutex(procs[p]) => ~TakesMapLock(procs[p])

\* goroutine p has started and has not ended
C19_Running(p) == procs[p].type \notin {"idle", "reserved"}

====
